---- MODULE Spec2Model ----
(***************************************************************************)
(* Model of src/conclave.py: the genetic algorithm AlgoritmoGenetico that  *)
(* chooses one outbound (ida) and one return (volta) flight per person.    *)
(*                                                                         *)
(* Conventions of the model                                                *)
(*  - A datetime is an integer number of whole hours counted from the base *)
(*    date of line 90, so (a - b).total_seconds() / 3600 is a - b.         *)
(*  - Prices and fitness weights are integers; float arithmetic is exact.  *)
(*  - Every random draw (random.random, random.choice, random.randint,     *)
(*    random.sample) is a nondeterministic choice over all its outcomes; a *)
(*    comparison random.random() < p can be true iff p > 0 and false iff   *)
(*    p < 1.                                                               *)
(*  - Python lists are sequences; list index i of the code is i + 1 here.  *)
(***************************************************************************)
EXTENDS Integers, Sequences, FiniteSets, TLC

VARIABLES
    cfg,                    \* constructor and executar arguments of the run
    pc,                     \* position inside executar / evoluir_geracao
    populacao,              \* self.populacao
    nova_populacao,         \* local of evoluir_geracao
    melhor_fitness,         \* self.melhor_fitness
    geracoes_sem_melhoria,  \* self.geracoes_sem_melhoria
    historico_fitness,      \* local of executar
    historico_custo,        \* local of executar
    geracao,                \* loop variable of executar
    motivo,                 \* which exit the generational loop took
    retorno,                \* value returned by executar
    execucao,               \* number of the executar call on the instance
    h_op,                   \* operator harness: operation applied
    h_args,                 \* operator harness: its arguments
    h_res                   \* operator harness: its result

vars == <<cfg, pc, populacao, nova_populacao, melhor_fitness,
          geracoes_sem_melhoria, historico_fitness, historico_custo,
          geracao, motivo, retorno, execucao, h_op, h_args, h_res>>

runVars == <<cfg, pc, populacao, nova_populacao, melhor_fitness,
             geracoes_sem_melhoria, historico_fitness, historico_custo,
             geracao, motivo, retorno, execucao>>

harnessVars == <<h_op, h_args, h_res>>

----------------------------------------------------------------------------
(* Bounds of the model *)

\* largest number of executar calls on one instance
MaxExecucoes == 2

\* largest number of persons (genes per leg) the operator harnesses draw
MaxGenes == 3

\* largest population the tournament harness draws
MaxPopulacaoTorneio == 4

\* largest max_geracoes argument of executar in the run configurations
MaxGeracoes == 23

----------------------------------------------------------------------------
(* Program constants *)

\* calcular_fitness: penalty of an incomplete chromosome
Penalidade == -1000000000

\* float('-inf') of __init__, below every fitness the program can compute
MenosInfinito == -2000000000

\* selecao_torneio: default tamanho_torneio
TamanhoTorneio == 3

\* criterio_parada_avancado: default janela
Janela == 20

\* criterio_parada_avancado: tolerancia = 0.001 = 1 / InvTolerancia
InvTolerancia == 1000

\* mutacao_inteligente: gap threshold in hours (> 1.0)
LimiteGap == 1

----------------------------------------------------------------------------
(* Generic helpers for Python list operations *)

MinOf(a, b) == IF a <= b THEN a ELSE b

MaxOf(a, b) == IF a >= b THEN a ELSE b

Abs(x) == IF x < 0 THEN -x ELSE x

\* s[a:b] with 0-based, end-exclusive Python slice bounds 0 <= a, b
Slice(s, a, b) == SubSeq(s, a + 1, MinOf(b, Len(s)))

\* s[a:]
SliceFrom(s, a) == SubSeq(s, a + 1, Len(s))

RECURSIVE SeqSum(_)
SeqSum(s) == IF Len(s) = 0 THEN 0 ELSE Head(s) + SeqSum(Tail(s))

RECURSIVE SeqMax(_)
\* max(list) of a non-empty list
SeqMax(s) == IF Len(s) = 1 THEN s[1] ELSE MaxOf(Head(s), SeqMax(Tail(s)))

RECURSIVE SeqMin(_)
\* min(list) of a non-empty list
SeqMin(s) == IF Len(s) = 1 THEN s[1] ELSE MinOf(Head(s), SeqMin(Tail(s)))

\* list.index(v): position of the first occurrence
IndexOf(s, v) == CHOOSE i \in 1..Len(s) : s[i] = v /\ \A j \in 1..(i - 1) : s[j] # v

\* [f(x) for x in s]
Precos(s) == [i \in 1..Len(s) |-> s[i].preco]

Chegadas(s) == [i \in 1..Len(s) |-> s[i].horario_chegada]

Saidas(s) == [i \in 1..Len(s) |-> s[i].horario_saida]

\* the elements of a list, as a set
Elems(s) == {s[i] : i \in 1..Len(s)}

\* all sequences of length n whose i-th element is drawn from choices[i]
RECURSIVE SeqsOf(_, _)
SeqsOf(choices, n) ==
    IF n = 0 THEN {<<>>}
    ELSE {Append(p, x) : p \in SeqsOf(choices, n - 1), x \in choices[n]}

\* the outcomes of "random.random() < num / den"
Coin(num, den) ==
    IF num <= 0 THEN {FALSE} ELSE IF num >= den THEN {TRUE} ELSE BOOLEAN

----------------------------------------------------------------------------
(* Data classes *)

Voo(saida, chegada, preco) ==
    [horario_saida |-> saida, horario_chegada |-> chegada, preco |-> preco]

Pessoa(ida, volta) == [voos_ida |-> ida, voos_volta |-> volta]

\* Cromossomo.__init__: fitness starts at 0
Cromossomo(ida, volta) == [voos_ida |-> ida, voos_volta |-> volta, fitness |-> 0]

Pesos(custo, chegada, saida) ==
    [peso_custo |-> custo, peso_gap_chegada |-> chegada, peso_gap_saida |-> saida]

----------------------------------------------------------------------------
(* Fitness *)

calcular_fitness_SemVolta(c, pesos) ==
    IF Len(c.voos_ida) = 0 \/ Len(c.voos_volta) = 0 THEN Penalidade
    ELSE LET custo_total == SeqSum(Precos(c.voos_ida))
             gap_chegada_ida == SeqMax(Chegadas(c.voos_ida)) - SeqMin(Chegadas(c.voos_ida))
             gap_saida_volta == SeqMax(Saidas(c.voos_volta)) - SeqMin(Saidas(c.voos_volta))
         IN  -(pesos.peso_custo * custo_total
               + pesos.peso_gap_chegada * gap_chegada_ida
               + pesos.peso_gap_saida * gap_saida_volta)

calcular_fitness(c, pesos) ==
    IF Len(c.voos_ida) = 0 \/ Len(c.voos_volta) = 0 THEN Penalidade
    ELSE LET custo_total == SeqSum(Precos(c.voos_ida \o c.voos_volta))
             horarios_chegada_ida == Chegadas(c.voos_ida)
             gap_chegada_ida == SeqMax(horarios_chegada_ida) - SeqMin(horarios_chegada_ida)
             horarios_saida_volta == Saidas(c.voos_volta)
             gap_saida_volta == SeqMax(horarios_saida_volta) - SeqMin(horarios_saida_volta)
         IN  -(pesos.peso_custo * custo_total
               + pesos.peso_gap_chegada * gap_chegada_ida
               + pesos.peso_gap_saida * gap_saida_volta)

avaliar_populacao_SemAtribuir(pop, pesos) == pop

\* avaliar_populacao: every chromosome gets its fitness
avaliar_populacao(pop, pesos) ==
    [i \in 1..Len(pop) |-> [pop[i] EXCEPT !.fitness = calcular_fitness(pop[i], pesos)]]

----------------------------------------------------------------------------
(* Tournament selection *)

\* the subsets of 1..n with exactly k members: random.sample draws by position
Amostras(n, k) == {S \in SUBSET (1..n) : Cardinality(S) = k}

\* the orders (lists of positions) in which random.sample can return S
RECURSIVE Ordens(_)
Ordens(S) ==
    IF S = {} THEN {<<>>}
    ELSE UNION {{<<x>> \o o : o \in Ordens(S \ {x})} : x \in S}

\* list.sort(key=fitness, reverse=True) is stable: the position list o sorted
\* by descending fitness, ties kept in the order of o
RECURSIVE OrdenarPorFitness(_, _)
OrdenarPorFitness(pop, o) ==
    IF Len(o) = 0 THEN <<>>
    ELSE LET m == SeqMax([i \in 1..Len(o) |-> pop[o[i]].fitness])
             k == CHOOSE i \in 1..Len(o) :
                      /\ pop[o[i]].fitness = m
                      /\ \A j \in 1..(i - 1) : pop[o[j]].fitness # m
         IN  <<o[k]>> \o OrdenarPorFitness(pop, SubSeq(o, 1, k - 1) \o SubSeq(o, k + 1, Len(o)))

\* selecao_torneio with the default arguments (tamanho_torneio = 3,
\* taxa_nao_melhor = 0.05): the positions of the population it can return;
\* position 0 stands for None
selecao_torneio(pop) ==
    IF Len(pop) < 2 THEN (IF Len(pop) = 0 THEN {0} ELSE {1})
    ELSE LET tamanho_torneio == MinOf(TamanhoTorneio, Len(pop))
         IN  UNION { UNION { LET competidores == OrdenarPorFitness(pop, o)
                             IN  {IF nao_melhor /\ Len(competidores) > 1
                                  THEN competidores[k]
                                  ELSE competidores[1]
                                    : nao_melhor \in Coin(5, 100),
                                      k \in 2..MaxOf(2, Len(competidores))}
                             : o \in Ordens(S) }
                     : S \in Amostras(Len(pop), tamanho_torneio) }

\* one call of selecao_torneio as the code runs it: the sorted sample
\* (competidores, positions of the population), the outcome of
\* random.random() < taxa_nao_melhor, the position returned (0 for None) and
\* self.populacao after the call
Torneio(pop, competidores, nao_melhor, escolhido) ==
    [competidores |-> competidores, nao_melhor |-> nao_melhor, escolhido |-> escolhido,
     populacao |-> pop]

Torneios_QualquerUm(pop) ==
    IF Len(pop) < 2
    THEN {Torneio(pop, <<>>, FALSE, IF Len(pop) = 0 THEN 0 ELSE 1)}
    ELSE LET tamanho_torneio == MinOf(TamanhoTorneio, Len(pop))
         IN  UNION { UNION { LET competidores == OrdenarPorFitness(pop, o)
                             IN  {Torneio(pop, competidores, nao_melhor,
                                          IF nao_melhor /\ Len(competidores) > 1
                                          THEN competidores[k] ELSE competidores[1])
                                    : nao_melhor \in Coin(5, 100),
                                      k \in 1..Len(competidores)}
                             : o \in Ordens(S) }
                     : S \in Amostras(Len(pop), tamanho_torneio) }

Torneios(pop) ==
    IF Len(pop) < 2
    THEN {Torneio(pop, <<>>, FALSE, IF Len(pop) = 0 THEN 0 ELSE 1)}
    ELSE LET tamanho_torneio == MinOf(TamanhoTorneio, Len(pop))
         IN  UNION { UNION { LET competidores == OrdenarPorFitness(pop, o)
                             IN  {Torneio(pop, competidores, nao_melhor,
                                          IF nao_melhor /\ Len(competidores) > 1
                                          THEN competidores[k] ELSE competidores[1])
                                    : nao_melhor \in Coin(5, 100),
                                      k \in 2..MaxOf(2, Len(competidores))}
                             : o \in Ordens(S) }
                     : S \in Amostras(Len(pop), tamanho_torneio) }

----------------------------------------------------------------------------
(* Crossover: each operator yields the set of results it can return; erro   *)
(* marks the call that raises instead of returning                          *)

Filhos(ida1, volta1, ida2, volta2) ==
    [erro |-> FALSE, filho1 |-> Cromossomo(ida1, volta1),
     filho2 |-> Cromossomo(ida2, volta2)]

\* the call raised (ValueError of random.randint on an empty range)
Levantou == [erro |-> TRUE, filho1 |-> Cromossomo(<<>>, <<>>),
             filho2 |-> Cromossomo(<<>>, <<>>)]

cruzamento_ponto_unico_LegTrocado(pai1, pai2) ==
    LET n_genes == Len(pai1.voos_ida)
    IN  IF n_genes = 0 THEN {Filhos(<<>>, <<>>, <<>>, <<>>)}
        ELSE IF n_genes - 1 < 1 THEN {Levantou}
        ELSE {Filhos(Slice(pai1.voos_ida, 0, p) \o SliceFrom(pai2.voos_volta, p),
                     Slice(pai1.voos_volta, 0, p) \o SliceFrom(pai2.voos_volta, p),
                     Slice(pai2.voos_ida, 0, p) \o SliceFrom(pai1.voos_ida, p),
                     Slice(pai2.voos_volta, 0, p) \o SliceFrom(pai1.voos_volta, p))
                : p \in 1..(n_genes - 1)}

cruzamento_ponto_unico_SemComplemento(pai1, pai2) ==
    LET n_genes == Len(pai1.voos_ida)
    IN  IF n_genes = 0 THEN {Filhos(<<>>, <<>>, <<>>, <<>>)}
        ELSE IF n_genes - 1 < 1 THEN {Levantou}
        ELSE {Filhos(Slice(pai1.voos_ida, 0, p) \o SliceFrom(pai2.voos_ida, p),
                     Slice(pai1.voos_volta, 0, p) \o SliceFrom(pai2.voos_volta, p),
                     Slice(pai1.voos_ida, 0, p) \o SliceFrom(pai2.voos_ida, p),
                     Slice(pai2.voos_volta, 0, p) \o SliceFrom(pai1.voos_volta, p))
                : p \in 1..(n_genes - 1)}

cruzamento_ponto_unico(pai1, pai2) ==
    LET n_genes == Len(pai1.voos_ida)
    IN  IF n_genes = 0 THEN {Filhos(<<>>, <<>>, <<>>, <<>>)}
        \* random.randint(1, n_genes - 1) raises ValueError on an empty range
        ELSE IF n_genes - 1 < 1 THEN {Levantou}
        ELSE {Filhos(Slice(pai1.voos_ida, 0, ponto_corte) \o SliceFrom(pai2.voos_ida, ponto_corte),
                     Slice(pai1.voos_volta, 0, ponto_corte) \o SliceFrom(pai2.voos_volta, ponto_corte),
                     Slice(pai2.voos_ida, 0, ponto_corte) \o SliceFrom(pai1.voos_ida, ponto_corte),
                     Slice(pai2.voos_volta, 0, ponto_corte) \o SliceFrom(pai1.voos_volta, ponto_corte))
                : ponto_corte \in 1..(n_genes - 1)}

cruzamento_dois_pontos(pai1, pai2) ==
    LET n_genes == Len(pai1.voos_ida)
    IN  IF n_genes < 3 THEN cruzamento_ponto_unico(pai1, pai2)
        ELSE {Filhos(Slice(pai1.voos_ida, 0, pts[1]) \o Slice(pai2.voos_ida, pts[1], pts[2])
                        \o SliceFrom(pai1.voos_ida, pts[2]),
                     Slice(pai1.voos_volta, 0, pts[1]) \o Slice(pai2.voos_volta, pts[1], pts[2])
                        \o SliceFrom(pai1.voos_volta, pts[2]),
                     Slice(pai2.voos_ida, 0, pts[1]) \o Slice(pai1.voos_ida, pts[1], pts[2])
                        \o SliceFrom(pai2.voos_ida, pts[2]),
                     Slice(pai2.voos_volta, 0, pts[1]) \o Slice(pai1.voos_volta, pts[1], pts[2])
                        \o SliceFrom(pai2.voos_volta, pts[2]))
                : pts \in {q \in (1..(n_genes - 1)) \X (1..(n_genes - 1)) : q[1] < q[2]}}

\* the genes of two parents dealt per position: where m[i] child 1 takes the
\* gene of a and child 2 that of b, elsewhere the other way round
Escolher(m, a, b) == [i \in 1..Len(a) |-> IF m[i] THEN a[i] ELSE b[i]]

cruzamento_uniforme(pai1, pai2) ==
    LET n_genes == Len(pai1.voos_ida)
    IN  IF n_genes = 0 THEN {Filhos(<<>>, <<>>, <<>>, <<>>)}
        ELSE {Filhos(Escolher(m, pai1.voos_ida, pai2.voos_ida),
                     Escolher(m, pai1.voos_volta, pai2.voos_volta),
                     Escolher(m, pai2.voos_ida, pai1.voos_ida),
                     Escolher(m, pai2.voos_volta, pai1.voos_volta))
                : m \in SeqsOf([i \in 1..n_genes |-> Coin(1, 2)], n_genes)}

cruzamento_baseado_custo_Invertido(pai1, pai2) ==
    LET n_genes == Len(pai1.voos_ida)
        m_ida == [i \in 1..n_genes |-> pai1.voos_ida[i].preco >= pai2.voos_ida[i].preco]
        m_volta == [i \in 1..n_genes |-> pai1.voos_volta[i].preco <= pai2.voos_volta[i].preco]
    IN  IF n_genes = 0 THEN {Filhos(<<>>, <<>>, <<>>, <<>>)}
        ELSE {Filhos(Escolher(m_ida, pai1.voos_ida, pai2.voos_ida),
                     Escolher(m_volta, pai1.voos_volta, pai2.voos_volta),
                     Escolher(m_ida, pai2.voos_ida, pai1.voos_ida),
                     Escolher(m_volta, pai2.voos_volta, pai1.voos_volta))}

cruzamento_baseado_custo(pai1, pai2) ==
    LET n_genes == Len(pai1.voos_ida)
        m_ida == [i \in 1..n_genes |-> pai1.voos_ida[i].preco <= pai2.voos_ida[i].preco]
        m_volta == [i \in 1..n_genes |-> pai1.voos_volta[i].preco <= pai2.voos_volta[i].preco]
    IN  IF n_genes = 0 THEN {Filhos(<<>>, <<>>, <<>>, <<>>)}
        ELSE {Filhos(Escolher(m_ida, pai1.voos_ida, pai2.voos_ida),
                     Escolher(m_volta, pai1.voos_volta, pai2.voos_volta),
                     Escolher(m_ida, pai2.voos_ida, pai1.voos_ida),
                     Escolher(m_volta, pai2.voos_volta, pai1.voos_volta))}

cruzamento_baseado_horario_EmpateAoSegundo(pai1, pai2) ==
    LET n_genes == Len(pai1.voos_ida)
        horarios_chegada_pai1 == Chegadas(pai1.voos_ida)
        horarios_chegada_pai2 == Chegadas(pai2.voos_ida)
    IN  IF n_genes = 0 THEN {Filhos(<<>>, <<>>, <<>>, <<>>)}
        ELSE IF Len(horarios_chegada_pai1) = 0 \/ Len(horarios_chegada_pai2) = 0
        THEN cruzamento_uniforme(pai1, pai2)
        ELSE LET span_pai1 == SeqMax(horarios_chegada_pai1) - SeqMin(horarios_chegada_pai1)
                 span_pai2 == SeqMax(horarios_chegada_pai2) - SeqMin(horarios_chegada_pai2)
                 filho1_ida == IF span_pai1 < span_pai2 THEN pai1.voos_ida ELSE pai2.voos_ida
                 filho2_ida == IF span_pai1 < span_pai2 THEN pai2.voos_ida ELSE pai1.voos_ida
             IN  {Filhos(filho1_ida, Escolher(m, pai1.voos_volta, pai2.voos_volta),
                         filho2_ida, Escolher(m, pai2.voos_volta, pai1.voos_volta))
                    : m \in SeqsOf([i \in 1..n_genes |-> Coin(1, 2)], n_genes)}

cruzamento_baseado_horario(pai1, pai2) ==
    LET n_genes == Len(pai1.voos_ida)
        horarios_chegada_pai1 == Chegadas(pai1.voos_ida)
        horarios_chegada_pai2 == Chegadas(pai2.voos_ida)
    IN  IF n_genes = 0 THEN {Filhos(<<>>, <<>>, <<>>, <<>>)}
        ELSE IF Len(horarios_chegada_pai1) = 0 \/ Len(horarios_chegada_pai2) = 0
        THEN cruzamento_uniforme(pai1, pai2)
        ELSE LET span_pai1 == SeqMax(horarios_chegada_pai1) - SeqMin(horarios_chegada_pai1)
                 span_pai2 == SeqMax(horarios_chegada_pai2) - SeqMin(horarios_chegada_pai2)
                 filho1_ida == IF span_pai1 <= span_pai2 THEN pai1.voos_ida ELSE pai2.voos_ida
                 filho2_ida == IF span_pai1 <= span_pai2 THEN pai2.voos_ida ELSE pai1.voos_ida
             IN  {Filhos(filho1_ida, Escolher(m, pai1.voos_volta, pai2.voos_volta),
                         filho2_ida, Escolher(m, pai2.voos_volta, pai1.voos_volta))
                    : m \in SeqsOf([i \in 1..n_genes |-> Coin(1, 2)], n_genes)}

TiposCruzamento == {"ponto_unico", "dois_pontos", "uniforme", "custo", "horario"}

\* the dispatch on tipo_cruzamento in evoluir_geracao
cruzamento(tipo_cruzamento, pai1, pai2) ==
    CASE tipo_cruzamento = "ponto_unico" -> cruzamento_ponto_unico(pai1, pai2)
      [] tipo_cruzamento = "dois_pontos" -> cruzamento_dois_pontos(pai1, pai2)
      [] tipo_cruzamento = "uniforme" -> cruzamento_uniforme(pai1, pai2)
      [] tipo_cruzamento = "custo" -> cruzamento_baseado_custo(pai1, pai2)
      [] tipo_cruzamento = "horario" -> cruzamento_baseado_horario(pai1, pai2)
      [] OTHER -> cruzamento_uniforme(pai1, pai2)

----------------------------------------------------------------------------
(* Mutation: each operator yields the set of chromosomes it can return.    *)
(* taxa is self.taxa_mutacao in thousandths.  copy.deepcopy keeps the      *)
(* fitness attribute of the input.                                         *)

\* one "if random.random() < p: if menu: gene = random.choice(menu)" step
GenePossiveis(gene, menu, num, den) ==
    UNION {IF sorteado /\ Len(menu) > 0 THEN Elems(menu) ELSE {gene}
             : sorteado \in Coin(num, den)}

PassagemAleatoria_MenuTrocado(ida, volta, pessoas, num, den) ==
    {[voos_ida |-> i2, voos_volta |-> v2]
       : i2 \in SeqsOf([i \in 1..Len(ida) |->
                           GenePossiveis(ida[i], pessoas[Len(ida) + 1 - i].voos_ida, num, den)],
                       Len(ida)),
         v2 \in SeqsOf([i \in 1..Len(ida) |->
                           GenePossiveis(volta[i], pessoas[Len(ida) + 1 - i].voos_volta, num, den)],
                       Len(ida))}

\* the random pass over every position of both legs, at rate num / den
PassagemAleatoria(ida, volta, pessoas, num, den) ==
    {[voos_ida |-> i2, voos_volta |-> v2]
       : i2 \in SeqsOf([i \in 1..Len(ida) |->
                           GenePossiveis(ida[i], pessoas[i].voos_ida, num, den)], Len(ida)),
         v2 \in SeqsOf([i \in 1..Len(ida) |->
                           GenePossiveis(volta[i], pessoas[i].voos_volta, num, den)], Len(ida))}

mutacao_tradicional_TaxaFixa(cromossomo, pessoas, taxa) ==
    {[voos_ida |-> r.voos_ida, voos_volta |-> r.voos_volta, fitness |-> cromossomo.fitness]
       : r \in PassagemAleatoria(cromossomo.voos_ida, cromossomo.voos_volta, pessoas, 1, 10)}

mutacao_tradicional(cromossomo, pessoas, taxa) ==
    {[voos_ida |-> r.voos_ida, voos_volta |-> r.voos_volta, fitness |-> cromossomo.fitness]
       : r \in PassagemAleatoria(cromossomo.voos_ida, cromossomo.voos_volta, pessoas, taxa, 1000)}

ReparoIda_SemLimiar(cromossomo, pessoas) ==
    LET horarios_chegada_ida == Chegadas(cromossomo.voos_ida)
    IN  IF Len(horarios_chegada_ida) > 1
        THEN LET primeiro_chegada == SeqMin(horarios_chegada_ida)
                 ultimo_chegada == SeqMax(horarios_chegada_ida)
             IN  IF ultimo_chegada - primeiro_chegada > 0
                 THEN LET idx_mais_tarde == IndexOf(horarios_chegada_ida, ultimo_chegada)
                          pessoa_alvo == pessoas[idx_mais_tarde]
                          voos_alternativos_ida ==
                              {v \in Elems(pessoa_alvo.voos_ida) : v.horario_chegada < ultimo_chegada}
                      IN  UNION {IF voos_alternativos_ida # {} /\ aplicar
                                 THEN {[cromossomo.voos_ida EXCEPT ![idx_mais_tarde] = v]
                                         : v \in voos_alternativos_ida}
                                 ELSE {cromossomo.voos_ida}
                                   : aplicar \in Coin(6, 10)}
                 ELSE {cromossomo.voos_ida}
        ELSE {cromossomo.voos_ida}

\* Estrategia 1 of mutacao_inteligente: the outbound lists it can leave
ReparoIda(cromossomo, pessoas) ==
    LET horarios_chegada_ida == Chegadas(cromossomo.voos_ida)
    IN  IF Len(horarios_chegada_ida) > 1
        THEN LET primeiro_chegada == SeqMin(horarios_chegada_ida)
                 ultimo_chegada == SeqMax(horarios_chegada_ida)
             IN  IF ultimo_chegada - primeiro_chegada > LimiteGap
                 THEN LET idx_mais_tarde == IndexOf(horarios_chegada_ida, ultimo_chegada)
                          pessoa_alvo == pessoas[idx_mais_tarde]
                          voos_alternativos_ida ==
                              {v \in Elems(pessoa_alvo.voos_ida) : v.horario_chegada < ultimo_chegada}
                      IN  UNION {IF voos_alternativos_ida # {} /\ aplicar
                                 THEN {[cromossomo.voos_ida EXCEPT ![idx_mais_tarde] = v]
                                         : v \in voos_alternativos_ida}
                                 ELSE {cromossomo.voos_ida}
                                   : aplicar \in Coin(6, 10)}
                 ELSE {cromossomo.voos_ida}
        ELSE {cromossomo.voos_ida}

\* Estrategia 2 of mutacao_inteligente: the return lists it can leave
ReparoVolta(cromossomo, pessoas) ==
    LET horarios_saida_volta == Saidas(cromossomo.voos_volta)
    IN  IF Len(horarios_saida_volta) > 1
        THEN LET primeiro_saida == SeqMin(horarios_saida_volta)
                 ultimo_saida == SeqMax(horarios_saida_volta)
             IN  IF ultimo_saida - primeiro_saida > LimiteGap
                 THEN LET idx_mais_cedo == IndexOf(horarios_saida_volta, primeiro_saida)
                          pessoa_alvo == pessoas[idx_mais_cedo]
                          voos_alternativos_volta ==
                              {v \in Elems(pessoa_alvo.voos_volta) : v.horario_saida > primeiro_saida}
                      IN  UNION {IF voos_alternativos_volta # {} /\ aplicar
                                 THEN {[cromossomo.voos_volta EXCEPT ![idx_mais_cedo] = v]
                                         : v \in voos_alternativos_volta}
                                 ELSE {cromossomo.voos_volta}
                                   : aplicar \in Coin(6, 10)}
                 ELSE {cromossomo.voos_volta}
        ELSE {cromossomo.voos_volta}

mutacao_inteligente(cromossomo, pessoas, taxa) ==
    IF Len(pessoas) = 0 THEN {cromossomo}
    ELSE {[voos_ida |-> r.voos_ida, voos_volta |-> r.voos_volta, fitness |-> cromossomo.fitness]
            : r \in UNION {PassagemAleatoria(ida, volta, pessoas, taxa * 2, 10000)
                             : ida \in ReparoIda(cromossomo, pessoas),
                               volta \in ReparoVolta(cromossomo, pessoas)}}

\* the dispatch on usar_mutacao_inteligente in evoluir_geracao
mutacao(usar_mutacao_inteligente, cromossomo, pessoas, taxa) ==
    IF usar_mutacao_inteligente THEN mutacao_inteligente(cromossomo, pessoas, taxa)
    ELSE mutacao_tradicional(cromossomo, pessoas, taxa)

----------------------------------------------------------------------------
(* Convergence criterion, with the default janela and tolerancia.  With    *)
(* integer fitness abs(x) < 1e-9 is x = 0.                                 *)

criterio_parada_avancado_JanelaMaior(historico) ==
    IF Len(historico) < Janela + 1 THEN FALSE
    ELSE LET fitness_atual == historico[Len(historico)]
             fitness_anterior == historico[Len(historico) - Janela]
         IN  IF Abs(fitness_anterior) = 0
             THEN Abs(fitness_atual - fitness_anterior) = 0
             ELSE InvTolerancia * Abs(fitness_atual - fitness_anterior) < Abs(fitness_anterior)

criterio_parada_avancado_Desligado(historico) == FALSE

criterio_parada_avancado_Inclusivo(historico) ==
    IF Len(historico) < Janela THEN FALSE
    ELSE LET fitness_atual == historico[Len(historico)]
             fitness_anterior == historico[Len(historico) - Janela + 1]
         IN  IF Abs(fitness_anterior) = 0
             THEN Abs(fitness_atual - fitness_anterior) = 0
             ELSE InvTolerancia * Abs(fitness_atual - fitness_anterior) <= Abs(fitness_anterior)

criterio_parada_avancado(historico) ==
    IF Len(historico) < Janela THEN FALSE
    ELSE LET fitness_atual == historico[Len(historico)]
             \* historico_fitness[-janela]
             fitness_anterior == historico[Len(historico) - Janela + 1]
         IN  IF Abs(fitness_anterior) = 0
             THEN Abs(fitness_atual - fitness_anterior) = 0
             ELSE InvTolerancia * Abs(fitness_atual - fitness_anterior) < Abs(fitness_anterior)

----------------------------------------------------------------------------
(* Inputs of the operator harnesses *)

\* the i-th person of the harness catalogue; menus differ from person to
\* person and from leg to leg, odd persons have two return flights, even
\* persons two equally priced outbound flights
PessoaH(i) ==
    IF i % 2 = 1
    THEN Pessoa(<<Voo(6, 9, 100 + i), Voo(9, 12, 150 + i)>>,
                <<Voo(18, 21, 100 + i), Voo(15, 18, 80 + i)>>)
    ELSE Pessoa(<<Voo(7, 10, 120 + i), Voo(7, 9, 120 + i)>>,
                <<Voo(18, 20, 100 + i)>>)

PessoasH(n) == [i \in 1..n |-> PessoaH(i)]

\* the chromosomes over the first n persons that gerar_populacao_inicial can draw
CromossomosDe(pessoas) ==
    {Cromossomo(ida, volta)
       : ida \in SeqsOf([i \in 1..Len(pessoas) |-> Elems(pessoas[i].voos_ida)], Len(pessoas)),
         volta \in SeqsOf([i \in 1..Len(pessoas) |-> Elems(pessoas[i].voos_volta)], Len(pessoas))}

PesosH == {Pesos(1, 100, 100), Pesos(2, 50, 200), Pesos(0, 1, 0)}

\* taxa_mutacao values of the mutation harness, in thousandths
TaxasH == {0, 120, 1000}

\* the run variables while an operator harness runs
RunOcioso ==
    /\ cfg = [nome |-> "nenhuma"]
    /\ pc = "ocioso"
    /\ populacao = <<>>
    /\ nova_populacao = <<>>
    /\ melhor_fitness = MenosInfinito
    /\ geracoes_sem_melhoria = 0
    /\ historico_fitness = <<>>
    /\ historico_custo = <<>>
    /\ geracao = 0
    /\ motivo = "nenhum"
    /\ retorno = [tipo |-> "nenhum"]
    /\ execucao = 0

\* the harness variables while executar runs
HarnessOcioso ==
    /\ h_op = "ocioso"
    /\ h_args = <<>>
    /\ h_res = <<>>

----------------------------------------------------------------------------
(* Harness of calcular_fitness: any two gene lists, also empty or of       *)
(* different lengths, under any of the weight triples                      *)

InitFitness ==
    /\ RunOcioso
    /\ h_op = "inicio"
    /\ \E a \in 0..MaxGenes, b \in 0..MaxGenes, pesos \in PesosH :
         \E ci \in CromossomosDe(PessoasH(a)), cv \in CromossomosDe(PessoasH(b)) :
            h_args = [cromossomo |-> Cromossomo(ci.voos_ida, cv.voos_volta), pesos |-> pesos]
    /\ h_res = <<>>

CalcularFitness ==
    /\ h_op = "inicio"
    /\ h_op' = "calcular_fitness"
    /\ h_res' = calcular_fitness(h_args.cromossomo, h_args.pesos)
    /\ UNCHANGED <<h_args, runVars>>

NextFitness == CalcularFitness

SpecFitness == InitFitness /\ [][NextFitness]_vars

----------------------------------------------------------------------------
(* Harness of the five crossover operators: two parents of equal gene      *)
(* length drawn from the menus of the first n persons                      *)

InitCruzamento ==
    /\ RunOcioso
    /\ h_op = "inicio"
    /\ \E n \in 0..MaxGenes :
         \E pai1 \in CromossomosDe(PessoasH(n)), pai2 \in CromossomosDe(PessoasH(n)) :
            h_args = [pessoas |-> PessoasH(n), pai1 |-> pai1, pai2 |-> pai2]
    /\ h_res = <<>>

CruzarPontoUnico ==
    /\ h_op = "inicio"
    /\ h_op' = "ponto_unico"
    /\ h_res' \in cruzamento("ponto_unico", h_args.pai1, h_args.pai2)
    /\ UNCHANGED <<h_args, runVars>>

CruzarDoisPontos ==
    /\ h_op = "inicio"
    /\ h_op' = "dois_pontos"
    /\ h_res' \in cruzamento("dois_pontos", h_args.pai1, h_args.pai2)
    /\ UNCHANGED <<h_args, runVars>>

CruzarUniforme ==
    /\ h_op = "inicio"
    /\ h_op' = "uniforme"
    /\ h_res' \in cruzamento("uniforme", h_args.pai1, h_args.pai2)
    /\ UNCHANGED <<h_args, runVars>>

CruzarCusto ==
    /\ h_op = "inicio"
    /\ h_op' = "custo"
    /\ h_res' \in cruzamento("custo", h_args.pai1, h_args.pai2)
    /\ UNCHANGED <<h_args, runVars>>

CruzarHorario ==
    /\ h_op = "inicio"
    /\ h_op' = "horario"
    /\ h_res' \in cruzamento("horario", h_args.pai1, h_args.pai2)
    /\ UNCHANGED <<h_args, runVars>>

NextCruzamento ==
    \/ CruzarPontoUnico
    \/ CruzarDoisPontos
    \/ CruzarUniforme
    \/ CruzarCusto
    \/ CruzarHorario

SpecCruzamento == InitCruzamento /\ [][NextCruzamento]_vars

----------------------------------------------------------------------------
(* Harness of the two mutation operators: one chromosome drawn from the    *)
(* menus of the first n persons, under each mutation rate                  *)

InitMutacao ==
    /\ RunOcioso
    /\ h_op = "inicio"
    /\ \E n \in 0..MaxGenes, taxa \in TaxasH :
         \E c \in CromossomosDe(PessoasH(n)) :
            h_args = [pessoas |-> PessoasH(n), cromossomo |-> c, taxa_mutacao |-> taxa]
    /\ h_res = <<>>

MutarTradicional ==
    /\ h_op = "inicio"
    /\ h_op' = "mutacao_tradicional"
    /\ h_res' \in mutacao(FALSE, h_args.cromossomo, h_args.pessoas, h_args.taxa_mutacao)
    /\ UNCHANGED <<h_args, runVars>>

MutarInteligente ==
    /\ h_op = "inicio"
    /\ h_op' = "mutacao_inteligente"
    /\ h_res' \in mutacao(TRUE, h_args.cromossomo, h_args.pessoas, h_args.taxa_mutacao)
    /\ UNCHANGED <<h_args, runVars>>

NextMutacao ==
    \/ MutarTradicional
    \/ MutarInteligente

SpecMutacao == InitMutacao /\ [][NextMutacao]_vars

----------------------------------------------------------------------------
(* Harness of criterio_parada_avancado: histories of every length up to    *)
(* two entries past the window; the latest entry, the entry janela - 1     *)
(* generations before it and the entry janela generations before it are    *)
(* drawn freely, every other entry is one filler value                     *)

\* best-of-generation fitness values: zero, around -1000 (0.1% is 1) and
\* around -2000 (0.1% is 2)
FitnessH == {0, -1, -999, -1000, -1001, -2000, -2001}

HistoricoH(n, atual, menos19, menos20, resto) ==
    [k \in 1..n |-> IF k = n THEN atual
                    ELSE IF k = n - Janela + 1 THEN menos19
                    ELSE IF k = n - Janela THEN menos20
                    ELSE resto]

InitCriterio ==
    /\ RunOcioso
    /\ h_op = "inicio"
    /\ \E n \in 0..(Janela + 2), atual \in FitnessH, menos19 \in FitnessH,
          menos20 \in FitnessH, resto \in {0, -1000} :
         h_args = [historico_fitness |-> HistoricoH(n, atual, menos19, menos20, resto)]
    /\ h_res = <<>>

AplicarCriterio ==
    /\ h_op = "inicio"
    /\ h_op' = "criterio_parada_avancado"
    /\ h_res' = criterio_parada_avancado(h_args.historico_fitness)
    /\ UNCHANGED <<h_args, runVars>>

NextCriterio == AplicarCriterio

SpecCriterio == InitCriterio /\ [][NextCriterio]_vars

----------------------------------------------------------------------------
(* Harness of selecao_torneio: populations of 0..MaxPopulacaoTorneio       *)
(* evaluated chromosomes; the selection reads only their fitness, which    *)
(* is drawn with ties                                                      *)

\* an evaluated chromosome of fitness f
Avaliado(f) == [voos_ida |-> <<>>, voos_volta |-> <<>>, fitness |-> f]

PopulacoesH ==
    UNION {SeqsOf([i \in 1..n |-> {Avaliado(f) : f \in {-300, -200, -100}}], n)
             : n \in 0..MaxPopulacaoTorneio}

InitTorneio ==
    /\ RunOcioso
    /\ h_op = "inicio"
    /\ \E pop \in PopulacoesH : h_args = [populacao |-> pop]
    /\ h_res = <<>>

Selecionar ==
    /\ h_op = "inicio"
    /\ h_op' = "selecao_torneio"
    /\ h_res' \in Torneios(h_args.populacao)
    /\ UNCHANGED <<h_args, runVars>>

NextTorneio == Selecionar

SpecTorneio == InitTorneio /\ [][NextTorneio]_vars

----------------------------------------------------------------------------
(* Reference semantics of the operators.  A Python list is an object: the  *)
(* heap is the sequence of the lists allocated so far, a list is named by  *)
(* its position in the heap, and a person or a chromosome holds the        *)
(* positions of its two lists.  Voo objects are never assigned to after    *)
(* their construction and stay values.  An assignment lista[i] = v changes *)
(* the heap at the position of lista, whoever else holds that position.    *)

\* the chromosome whose lists are read from the heap
ValorDe(heap, c) ==
    [voos_ida |-> heap[c.voos_ida], voos_volta |-> heap[c.voos_volta], fitness |-> c.fitness]

\* self.pessoas with the menus read from the heap
PessoasDe(heap, pessoas) ==
    [i \in 1..Len(pessoas) |-> Pessoa(heap[pessoas[i].voos_ida], heap[pessoas[i].voos_volta])]

\* Cromossomo(ida, volta) on two lists built for it (a literal, a slice, a
\* concatenation, list.copy(), or [] filled by append)
NovoCromossomo(heap, valor) ==
    [heap |-> heap \o <<valor.voos_ida, valor.voos_volta>>,
     cromossomo |-> [voos_ida |-> Len(heap) + 1, voos_volta |-> Len(heap) + 2,
                     fitness |-> valor.fitness]]

deepcopy_MesmoObjeto(heap, c) == [heap |-> heap, cromossomo |-> c]

\* copy.deepcopy(cromossomo): a new object on new lists of equal content
deepcopy(heap, c) == NovoCromossomo(heap, ValorDe(heap, c))

\* gerar_populacao_inicial for a population of two: each chromosome on two
\* new lists filled with random.choice of the menus
gerar_populacao_inicial_ref(heap, pessoas) ==
    {LET c1 == NovoCromossomo(heap, v1)
         c2 == NovoCromossomo(c1.heap, v2)
     IN  [heap |-> c2.heap, saida |-> <<c1.cromossomo, c2.cromossomo>>]
       : v1 \in CromossomosDe(PessoasDe(heap, pessoas)),
         v2 \in CromossomosDe(PessoasDe(heap, pessoas))}

\* a crossover: the parents are read, each child is built on new lists
cruzamento_ref(tipo_cruzamento, heap, pai1, pai2) ==
    {IF r.erro THEN [heap |-> heap, saida |-> <<>>]
     ELSE LET f1 == NovoCromossomo(heap, r.filho1)
              f2 == NovoCromossomo(f1.heap, r.filho2)
          IN  [heap |-> f2.heap, saida |-> <<f1.cromossomo, f2.cromossomo>>]
       : r \in cruzamento(tipo_cruzamento, ValorDe(heap, pai1), ValorDe(heap, pai2))}

\* a mutation: deepcopy, then the item assignments go to the lists of the copy
mutacao_ref(usar_mutacao_inteligente, heap, cromossomo, pessoas, taxa) ==
    LET copia == deepcopy(heap, cromossomo)
        novo_cromossomo == copia.cromossomo
    IN  {[heap |-> [copia.heap EXCEPT ![novo_cromossomo.voos_ida] = r.voos_ida,
                                      ![novo_cromossomo.voos_volta] = r.voos_volta],
          saida |-> <<novo_cromossomo>>]
           : r \in mutacao(usar_mutacao_inteligente, ValorDe(heap, cromossomo),
                           PessoasDe(heap, pessoas), taxa)}

\* the menus of the first n harness persons as the first 2n lists of a heap
MenusH(n) ==
    [k \in 1..(2 * n) |-> IF k % 2 = 1 THEN PessoaH((k + 1) \div 2).voos_ida
                          ELSE PessoaH(k \div 2).voos_volta]

\* h_res after an operation: the heap before and after it, the chromosomes
\* it was given and the chromosomes it returned
Efeito(op, antes, entrada, r) ==
    [op |-> op, antes |-> antes, heap |-> r.heap, entrada |-> entrada, saida |-> r.saida]

InitReferencias ==
    /\ RunOcioso
    /\ h_op = "menus"
    /\ \E n \in 1..(MaxGenes - 1) :
         h_args = [pessoas |-> [i \in 1..n |-> [voos_ida |-> 2 * i - 1, voos_volta |-> 2 * i]],
                   menus |-> MenusH(n)]
    /\ h_res = Efeito("nenhuma", h_args.menus, <<>>, [heap |-> h_args.menus, saida |-> <<>>])

SemearRef ==
    /\ h_op = "menus"
    /\ h_op' = "semeada"
    /\ \E r \in gerar_populacao_inicial_ref(h_res.heap, h_args.pessoas) :
         h_res' = Efeito("gerar_populacao_inicial", h_res.heap, <<>>, r)
    /\ UNCHANGED <<h_args, runVars>>

CruzarRef ==
    /\ h_op = "semeada"
    /\ h_op' = "cruzada"
    /\ \E tipo \in TiposCruzamento :
         \E r \in cruzamento_ref(tipo, h_res.heap, h_res.saida[1], h_res.saida[2]) :
            h_res' = Efeito(tipo, h_res.heap, h_res.saida, r)
    /\ UNCHANGED <<h_args, runVars>>

MutarRef ==
    /\ h_op = "semeada"
    /\ h_op' = "mutada"
    /\ \E inteligente \in BOOLEAN, taxa \in TaxasH :
         \E r \in mutacao_ref(inteligente, h_res.heap, h_res.saida[1], h_args.pessoas, taxa) :
            h_res' = Efeito(IF inteligente THEN "mutacao_inteligente" ELSE "mutacao_tradicional",
                            h_res.heap, <<h_res.saida[1]>>, r)
    /\ UNCHANGED <<h_args, runVars>>

NextReferencias ==
    \/ SemearRef
    \/ CruzarRef
    \/ MutarRef

SpecReferencias == InitReferencias /\ [][NextReferencias]_vars

----------------------------------------------------------------------------
(* The run: AlgoritmoGenetico.__init__ followed by executar *)

\* the flights of the run scenarios
VooA == Voo(7, 10, 100)

VooB == Voo(9, 12, 200)

VooC == Voo(8, 10, 100)

VooD == Voo(8, 10, 200)

VooVolta == Voo(18, 20, 100)

\* two persons with one outbound and one return flight each
PessoasUnicas == <<Pessoa(<<VooA>>, <<VooVolta>>), Pessoa(<<VooA>>, <<VooVolta>>)>>

\* two persons with two outbound flights each
PessoasDuas == <<Pessoa(<<VooA, VooB>>, <<VooVolta>>), Pessoa(<<VooC, VooD>>, <<VooVolta>>)>>

\* a single person: chromosomes of one gene per leg
PessoaSo == <<Pessoa(<<VooA, VooB>>, <<VooVolta>>)>>

\* the second person has no return flight
PessoasSemVolta == <<Pessoa(<<VooA>>, <<VooVolta>>), Pessoa(<<VooC>>, <<>>)>>

\* taxa_elite is given in hundredths, taxa_mutacao in thousandths
Config(pessoas, pesos, tam, elite, taxa, sem_melhoria_max, max_geracoes, tipo, inteligente) ==
    [pessoas |-> pessoas, pesos |-> pesos, tamanho_populacao |-> tam,
     taxa_elite |-> elite, taxa_mutacao |-> taxa,
     geracoes_sem_melhoria_max |-> sem_melhoria_max, max_geracoes |-> max_geracoes,
     tipo_cruzamento |-> tipo, usar_mutacao_inteligente |-> inteligente]

\* short runs under every operator and rate: populations of 1 and 2 with
\* and without an elite fraction, populations of 3 with one
ConfigsCurtas ==
    {Config(PessoasDuas, Pesos(1, 100, 100), te[1], te[2], taxa, 1, 2, tipo, inteligente)
       : te \in {<<1, 0>>, <<1, 50>>, <<2, 0>>, <<2, 50>>, <<3, 50>>}, taxa \in {0, 120},
         tipo \in TiposCruzamento, inteligente \in BOOLEAN}

\* runs long enough for the stopping rules, without random mutation
ConfigsLongas ==
    {Config(PessoasDuas, Pesos(1, 100, 100), 2, elite, 0, sem_melhoria_max, MaxGeracoes,
            tipo, FALSE)
       : elite \in {0, 50}, sem_melhoria_max \in {3, 40}, tipo \in {"ponto_unico", "custo"}}

\* the scenario of identical chromosomes
ConfigsUnicas ==
    {Config(PessoasUnicas, pesos, tam, elite, taxa, 40, MaxGeracoes, tipo, inteligente)
       : pesos \in {Pesos(1, 100, 100), Pesos(2, 50, 200)}, tam \in 1..3, elite \in {0, 50},
         taxa \in {0, 120}, tipo \in {"ponto_unico", "horario"}, inteligente \in BOOLEAN}

\* degenerate inputs: no person, an empty menu, one gene, an empty population
ConfigsDegeneradas ==
    {Config(pessoas, Pesos(1, 100, 100), tam, 50, 120, 40, 2, tipo, FALSE)
       : pessoas \in {<<>>, PessoasSemVolta, PessoaSo}, tam \in {0, 2},
         tipo \in {"ponto_unico", "uniforme"}}
    \cup {Config(PessoasDuas, Pesos(1, 100, 100), 0, 50, 120, 40, 2, "uniforme", FALSE)}

Configs == ConfigsCurtas \cup ConfigsLongas \cup ConfigsUnicas \cup ConfigsDegeneradas

\* int(self.taxa_elite * self.tamanho_populacao)
elite_size(c) == (c.taxa_elite * c.tamanho_populacao) \div 100

MelhorDe_Ultimo(pop) == pop[Len(pop)]

\* max(populacao, key=fitness): the first chromosome of greatest fitness
MelhorDe(pop) ==
    LET m == SeqMax([i \in 1..Len(pop) |-> pop[i].fitness])
    IN  pop[CHOOSE i \in 1..Len(pop) :
                pop[i].fitness = m /\ \A j \in 1..(i - 1) : pop[j].fitness # m]

\* populacao.sort(key=fitness, reverse=True)
OrdenarPopulacao(pop) ==
    LET o == OrdenarPorFitness(pop, [i \in 1..Len(pop) |-> i])
    IN  [i \in 1..Len(pop) |-> pop[o[i]]]

\* gerar_populacao_inicial raises ValueError
GerarLevanta(c) ==
    \/ Len(c.pessoas) = 0
    \/ /\ c.tamanho_populacao > 0
       /\ \E i \in 1..Len(c.pessoas) :
             Len(c.pessoas[i].voos_ida) = 0 \/ Len(c.pessoas[i].voos_volta) = 0

\* the populations gerar_populacao_inicial can build
PopulacoesIniciais(c) ==
    SeqsOf([i \in 1..c.tamanho_populacao |-> CromossomosDe(c.pessoas)], c.tamanho_populacao)

Retorno(tipo, solucao, hf, hc) ==
    [tipo |-> tipo, melhor_solucao |-> solucao, fitness |-> hf, custo |-> hc]

Init ==
    /\ HarnessOcioso
    /\ cfg \in Configs
    /\ pc = "inicio"
    /\ populacao = <<>>
    /\ nova_populacao = <<>>
    /\ melhor_fitness = MenosInfinito
    /\ geracoes_sem_melhoria = 0
    /\ historico_fitness = <<>>
    /\ historico_custo = <<>>
    /\ geracao = 0
    /\ motivo = "nenhum"
    /\ retorno = [tipo |-> "nenhum"]
    /\ execucao = 1

\* executar, lines 521-533: the entry checks and the initial population
Iniciar ==
    /\ pc = "inicio"
    /\ historico_fitness' = <<>>
    /\ historico_custo' = <<>>
    /\ geracao' = 0
    /\ IF GerarLevanta(cfg)
       THEN /\ pc' = "fim"
            /\ retorno' = Retorno("None", Cromossomo(<<>>, <<>>), <<>>, <<>>)
            \* without persons executar returns at once; otherwise line 166
            \* has emptied the population before the ValueError
            /\ populacao' = IF Len(cfg.pessoas) = 0 THEN populacao ELSE <<>>
       ELSE /\ pc' = "laco"
            /\ populacao' \in PopulacoesIniciais(cfg)
            /\ UNCHANGED retorno
    /\ UNCHANGED <<cfg, execucao, nova_populacao, melhor_fitness, geracoes_sem_melhoria, motivo,
                   harnessVars>>

laco_esgotado_UmaAMais(g, max_geracoes) == g > max_geracoes

\* executar, line 537: range(max_geracoes) has no further generation
laco_esgotado(g, max_geracoes) == g >= max_geracoes

\* executar, lines 537-556: evaluate the generation and record its best
Avaliar ==
    /\ pc = "laco"
    /\ ~laco_esgotado(geracao, cfg.max_geracoes)
    /\ LET avaliada == avaliar_populacao(populacao, cfg.pesos)
       IN  /\ populacao' = avaliada
           /\ IF Len(avaliada) = 0
              THEN \* max() of an empty list raises ValueError
                   /\ pc' = "fim"
                   /\ retorno' = Retorno("excecao", Cromossomo(<<>>, <<>>), <<>>, <<>>)
                   /\ UNCHANGED <<historico_fitness, historico_custo, melhor_fitness,
                                  geracoes_sem_melhoria>>
              ELSE LET melhor_atual == MelhorDe(avaliada)
                       custo_melhor_atual ==
                           SeqSum(Precos(melhor_atual.voos_ida \o melhor_atual.voos_volta))
                   IN  /\ pc' = "verificar"
                       /\ historico_fitness' = Append(historico_fitness, melhor_atual.fitness)
                       /\ historico_custo' = Append(historico_custo, custo_melhor_atual)
                       /\ IF melhor_atual.fitness > melhor_fitness
                          THEN /\ melhor_fitness' = melhor_atual.fitness
                               /\ geracoes_sem_melhoria' = 0
                          ELSE /\ geracoes_sem_melhoria' = geracoes_sem_melhoria + 1
                               /\ UNCHANGED melhor_fitness
                       /\ UNCHANGED retorno
    /\ UNCHANGED <<cfg, execucao, nova_populacao, geracao, motivo, harnessVars>>

limite_sem_melhoria_Estrito(sem_melhoria, sem_melhoria_max) ==
    sem_melhoria > sem_melhoria_max

\* executar, line 565: the stagnation test
limite_sem_melhoria(sem_melhoria, sem_melhoria_max) ==
    sem_melhoria >= sem_melhoria_max

\* executar, lines 558-568: the two stopping rules, convergence first
Verificar ==
    /\ pc = "verificar"
    /\ IF criterio_parada_avancado(historico_fitness)
       THEN pc' = "final" /\ motivo' = "convergencia"
       ELSE IF limite_sem_melhoria(geracoes_sem_melhoria, cfg.geracoes_sem_melhoria_max)
       THEN pc' = "final" /\ motivo' = "estagnacao"
       ELSE pc' = "evoluir" /\ UNCHANGED motivo
    /\ UNCHANGED <<cfg, execucao, populacao, nova_populacao, melhor_fitness, geracoes_sem_melhoria,
                   historico_fitness, historico_custo, geracao, retorno, harnessVars>>

\* evoluir_geracao, lines 469-474: sort the population in place, copy the elite
elite_de_PioresPrimeiro(pop, c) ==
    LET ordenada == OrdenarPopulacao(pop)
    IN  [i \in 1..MinOf(elite_size(c), Len(pop)) |-> ordenada[Len(pop) + 1 - i]]

elite_de_SemElite(pop, c) == <<>>

elite_de(pop, c) == Slice(OrdenarPopulacao(pop), 0, elite_size(c))

EvoluirElite ==
    /\ pc = "evoluir"
    /\ populacao' = OrdenarPopulacao(populacao)
    /\ nova_populacao' = elite_de(populacao, cfg)
    /\ pc' = "preencher"
    /\ UNCHANGED <<cfg, execucao, melhor_fitness, geracoes_sem_melhoria, historico_fitness,
                   historico_custo, geracao, motivo, retorno, harnessVars>>

\* the pairs of parents (positions) one pass of the filling loop can select;
\* position 0 is None
Pais(pop) ==
    UNION {IF pai1 = 0 \/ pai2 = 0 THEN {<<pai1, pai2>>}
           ELSE IF pai1 = pai2 /\ Len(pop) > 1
           THEN {<<pai1, outro>> : outro \in selecao_torneio(pop)}
           ELSE {<<pai1, pai2>>}
             : pai1 \in selecao_torneio(pop), pai2 \in selecao_torneio(pop)}

\* evoluir_geracao, lines 477-510: one pass of the filling loop
EvoluirPar ==
    /\ pc = "preencher"
    /\ Len(nova_populacao) < cfg.tamanho_populacao
    /\ \E pais \in Pais(populacao) :
         IF pais[1] = 0 \/ pais[2] = 0
         THEN \* break
              /\ pc' = "substituir"
              /\ UNCHANGED <<nova_populacao, retorno>>
         ELSE \E r \in cruzamento(cfg.tipo_cruzamento, populacao[pais[1]], populacao[pais[2]]) :
                IF r.erro
                THEN \* the ValueError leaves evoluir_geracao and executar
                     /\ pc' = "fim"
                     /\ retorno' = Retorno("excecao", Cromossomo(<<>>, <<>>), <<>>, <<>>)
                     /\ UNCHANGED nova_populacao
                ELSE \E filho1 \in mutacao(cfg.usar_mutacao_inteligente, r.filho1,
                                           cfg.pessoas, cfg.taxa_mutacao),
                        filho2 \in mutacao(cfg.usar_mutacao_inteligente, r.filho2,
                                           cfg.pessoas, cfg.taxa_mutacao) :
                       /\ nova_populacao' = nova_populacao \o <<filho1, filho2>>
                       /\ pc' = "preencher"
                       /\ UNCHANGED retorno
    /\ UNCHANGED <<cfg, execucao, populacao, melhor_fitness, geracoes_sem_melhoria, historico_fitness,
                   historico_custo, geracao, motivo, harnessVars>>

\* the filling loop ends because the new population is full
EvoluirCheia ==
    /\ pc = "preencher"
    /\ Len(nova_populacao) >= cfg.tamanho_populacao
    /\ pc' = "substituir"
    /\ UNCHANGED <<cfg, execucao, populacao, nova_populacao, melhor_fitness, geracoes_sem_melhoria,
                   historico_fitness, historico_custo, geracao, motivo, retorno, harnessVars>>

truncar_SemCorte(nova, tamanho) == nova

\* evoluir_geracao, line 513: nova_populacao[:self.tamanho_populacao]
truncar(nova, tamanho) == Slice(nova, 0, tamanho)

\* evoluir_geracao, line 513, and the step of the for loop of executar
Substituir ==
    /\ pc = "substituir"
    /\ populacao' = truncar(nova_populacao, cfg.tamanho_populacao)
    /\ nova_populacao' = <<>>
    /\ geracao' = geracao + 1
    /\ pc' = "laco"
    /\ UNCHANGED <<cfg, execucao, melhor_fitness, geracoes_sem_melhoria, historico_fitness,
                   historico_custo, motivo, retorno, harnessVars>>

\* the for loop of executar runs out of generations
Esgotar ==
    /\ pc = "laco"
    /\ laco_esgotado(geracao, cfg.max_geracoes)
    /\ pc' = "final"
    /\ motivo' = "max_geracoes"
    /\ UNCHANGED <<cfg, execucao, populacao, nova_populacao, melhor_fitness, geracoes_sem_melhoria,
                   historico_fitness, historico_custo, geracao, retorno, harnessVars>>

\* executar, lines 573-576: the final evaluation and the return
Finalizar ==
    /\ pc = "final"
    /\ pc' = "fim"
    /\ LET avaliada == avaliar_populacao(populacao, cfg.pesos)
       IN  /\ populacao' = avaliada
           /\ retorno' = IF Len(avaliada) = 0
                         THEN Retorno("excecao", Cromossomo(<<>>, <<>>), <<>>, <<>>)
                         ELSE Retorno("solucao", MelhorDe(avaliada),
                                      historico_fitness, historico_custo)
    /\ UNCHANGED <<cfg, execucao, nova_populacao, melhor_fitness, geracoes_sem_melhoria,
                   historico_fitness, historico_custo, geracao, motivo, harnessVars>>

\* the configurations whose instance is given a further executar call
Repetiveis ==
    {c \in ConfigsCurtas : /\ c.tamanho_populacao = 2
                           /\ c.taxa_elite = 50
                           /\ c.tipo_cruzamento = "ponto_unico"
                           /\ ~c.usar_mutacao_inteligente}

\* the caller calls executar again on the same instance, with the same
\* arguments: the attributes of the instance (populacao, melhor_fitness,
\* geracoes_sem_melhoria) are as the previous call left them, the locals of
\* the previous call are gone
Reexecutar ==
    /\ pc = "fim"
    /\ execucao < MaxExecucoes
    /\ cfg \in Repetiveis
    /\ pc' = "inicio"
    /\ execucao' = execucao + 1
    /\ historico_fitness' = <<>>
    /\ historico_custo' = <<>>
    /\ geracao' = 0
    /\ motivo' = "nenhum"
    /\ retorno' = [tipo |-> "nenhum"]
    /\ UNCHANGED <<cfg, populacao, nova_populacao, melhor_fitness, geracoes_sem_melhoria,
                   harnessVars>>

Next ==
    \/ Iniciar
    \/ Avaliar
    \/ Verificar
    \/ EvoluirElite
    \/ EvoluirPar
    \/ EvoluirCheia
    \/ Substituir
    \/ Esgotar
    \/ Finalizar
    \/ Reexecutar

Spec == Init /\ [][Next]_vars

\* the steps of executar itself; a further call is up to the caller
Passo ==
    \/ Iniciar
    \/ Avaliar
    \/ Verificar
    \/ EvoluirElite
    \/ EvoluirPar
    \/ EvoluirCheia
    \/ Substituir
    \/ Esgotar
    \/ Finalizar

\* the configurations of the runs followed to their end: two persons, populations
\* of one and two, the short runs that stop at the ceiling of generations and the
\* long runs that stop by stagnation
ConfigsJustas ==
    {c \in ConfigsCurtas \cup ConfigsLongas :
        /\ c.tamanho_populacao <= 2
        /\ c.tipo_cruzamento = "ponto_unico"
        /\ ~c.usar_mutacao_inteligente
        /\ c.taxa_mutacao = 0
        /\ c.geracoes_sem_melhoria_max <= 3}

InitJusto == Init /\ cfg \in ConfigsJustas

\* executar is sequential code: a call that has a next statement executes it
SpecJusto == InitJusto /\ [][Next]_vars /\ WF_vars(Passo)

----------------------------------------------------------------------------
(* Properties of the operators *)

\* the number of persons of the harness call
NGenes == Len(h_args.pessoas)

\* a crossover was applied and returned its two children
CruzamentoRetornou == h_op \in TiposCruzamento /\ ~h_res.erro

\* gene i of leg list `filho` is of person i's menu and of one of the parents
GeneValido(filho, menu, genes1, genes2, i) ==
    /\ filho[i] \in Elems(menu)
    /\ filho[i] \in {genes1[i], genes2[i]}

\* C1: under each of the five crossover strategies, for parents of equal gene
\* length N with genes from the matching menus, both returned children have N
\* outbound and N return genes and each gene at position i of a leg is an
\* option of person i's menu of that leg, namely the gene of one of the two
\* parents at that position and leg.  (A call that raises returns no child.)
C1_FilhosValidos ==
    CruzamentoRetornou =>
        \A f \in {h_res.filho1, h_res.filho2} :
            /\ Len(f.voos_ida) = NGenes
            /\ Len(f.voos_volta) = NGenes
            /\ \A i \in 1..NGenes :
                  /\ GeneValido(f.voos_ida, h_args.pessoas[i].voos_ida,
                                h_args.pai1.voos_ida, h_args.pai2.voos_ida, i)
                  /\ GeneValido(f.voos_volta, h_args.pessoas[i].voos_volta,
                                h_args.pai1.voos_volta, h_args.pai2.voos_volta, i)

\* single-point crossover returned children of three genes whose parents
\* differ in every outbound gene
C1_Witness ==
    /\ h_op = "ponto_unico"
    /\ ~h_res.erro
    /\ NGenes >= 3
    /\ \A i \in 1..NGenes : h_args.pai1.voos_ida[i] # h_args.pai2.voos_ida[i]
    /\ h_res.filho1.voos_ida # h_args.pai1.voos_ida

\* child 1 takes parent 1 outside the cut segment (p1, p2] and parent 2
\* inside it, child 2 the complement, on both legs
CorteComplementar(p1, p2) ==
    \A i \in 1..NGenes :
        LET fora == i <= p1 \/ i > p2
        IN  /\ h_res.filho1.voos_ida[i] =
                  (IF fora THEN h_args.pai1.voos_ida[i] ELSE h_args.pai2.voos_ida[i])
            /\ h_res.filho1.voos_volta[i] =
                  (IF fora THEN h_args.pai1.voos_volta[i] ELSE h_args.pai2.voos_volta[i])
            /\ h_res.filho2.voos_ida[i] =
                  (IF fora THEN h_args.pai2.voos_ida[i] ELSE h_args.pai1.voos_ida[i])
            /\ h_res.filho2.voos_volta[i] =
                  (IF fora THEN h_args.pai2.voos_volta[i] ELSE h_args.pai1.voos_volta[i])

\* C6: single-point and two-point crossover are complementary: at every
\* position and leg child 2 holds parent 2's gene where child 1 took parent
\* 1's and parent 1's gene where child 1 took parent 2's, and the same cut
\* point(s) serve the outbound and the return lists: one cut p1 in 1..N-1
\* (single-point, and two-point with N < 3), or two cuts p1 < p2 in 1..N-1.
C6_Complementares ==
    (h_op \in {"ponto_unico", "dois_pontos"} /\ ~h_res.erro /\ NGenes > 0) =>
        /\ Len(h_res.filho1.voos_ida) = NGenes /\ Len(h_res.filho1.voos_volta) = NGenes
        /\ Len(h_res.filho2.voos_ida) = NGenes /\ Len(h_res.filho2.voos_volta) = NGenes
        /\ IF h_op = "ponto_unico" \/ NGenes < 3
           THEN \E p1 \in 1..(NGenes - 1) : CorteComplementar(p1, NGenes)
           ELSE \E p1 \in 1..(NGenes - 1), p2 \in 1..(NGenes - 1) :
                   p1 < p2 /\ CorteComplementar(p1, p2)

\* two-point crossover of three genes with parents that differ in every gene
\* of the outbound leg and in a gene of the return leg
C6_Witness ==
    /\ h_op = "dois_pontos"
    /\ ~h_res.erro
    /\ NGenes >= 3
    /\ \A i \in 1..NGenes : h_args.pai1.voos_ida[i] # h_args.pai2.voos_ida[i]
    /\ h_args.pai1.voos_volta # h_args.pai2.voos_volta
    /\ h_res.filho1.voos_ida # h_args.pai1.voos_ida

\* C7: cost-greedy crossover: at every position and for each leg on its own
\* child 1's gene costs no more than child 2's; child 1 holds the parent
\* gene of lower or equal price (parent 1's on a tie), child 2 the other
\* parent's gene.
C7_CustoGuloso ==
    h_op = "custo" =>
        /\ ~h_res.erro
        /\ Len(h_res.filho1.voos_ida) = NGenes /\ Len(h_res.filho1.voos_volta) = NGenes
        /\ Len(h_res.filho2.voos_ida) = NGenes /\ Len(h_res.filho2.voos_volta) = NGenes
        /\ \A i \in 1..NGenes :
              LET i1 == h_args.pai1.voos_ida[i]
                  i2 == h_args.pai2.voos_ida[i]
                  v1 == h_args.pai1.voos_volta[i]
                  v2 == h_args.pai2.voos_volta[i]
              IN  /\ h_res.filho1.voos_ida[i].preco <= h_res.filho2.voos_ida[i].preco
                  /\ h_res.filho1.voos_volta[i].preco <= h_res.filho2.voos_volta[i].preco
                  /\ h_res.filho1.voos_ida[i] = (IF i1.preco <= i2.preco THEN i1 ELSE i2)
                  /\ h_res.filho2.voos_ida[i] = (IF i1.preco <= i2.preco THEN i2 ELSE i1)
                  /\ h_res.filho1.voos_volta[i] = (IF v1.preco <= v2.preco THEN v1 ELSE v2)
                  /\ h_res.filho2.voos_volta[i] = (IF v1.preco <= v2.preco THEN v2 ELSE v1)

\* cost-greedy crossover met a price tie between different flights, a
\* position where parent 1 is dearer on the outbound leg and one where
\* parent 2 is dearer on the return leg
C7_Witness ==
    /\ h_op = "custo"
    /\ \E i \in 1..NGenes :
          /\ h_args.pai1.voos_ida[i] # h_args.pai2.voos_ida[i]
          /\ h_args.pai1.voos_ida[i].preco = h_args.pai2.voos_ida[i].preco
    /\ \E i \in 1..NGenes : h_args.pai1.voos_ida[i].preco > h_args.pai2.voos_ida[i].preco
    /\ \E i \in 1..NGenes : h_args.pai1.voos_volta[i].preco < h_args.pai2.voos_volta[i].preco

\* the result of a mutation has the genes of its input
MesmosGenes ==
    /\ h_res.voos_ida = h_args.cromossomo.voos_ida
    /\ h_res.voos_volta = h_args.cromossomo.voos_volta

\* the span (max - min) of a list of hours, 0 for fewer than two
Span(horas) ==
    IF Len(horas) < 2 THEN 0
    ELSE (CHOOSE x \in Elems(horas) : \A y \in Elems(horas) : x >= y)
         - (CHOOSE x \in Elems(horas) : \A y \in Elems(horas) : x <= y)

\* C8 as stated: with mutation_rate = 0 the mutated chromosome is gene for
\* gene identical to the input under either mutation strategy.
C8_Original ==
    (h_op \in {"mutacao_tradicional", "mutacao_inteligente"} /\ h_args.taxa_mutacao = 0)
        => MesmosGenes

\* C8 amended: with mutation_rate = 0 the uniform-random strategy returns a
\* gene-for-gene identical chromosome; the gap-directed strategy does so
\* whenever neither the arrival span of the outbound genes nor the departure
\* span of the return genes exceeds one hour.
C8_TaxaZero ==
    /\ (h_op = "mutacao_tradicional" /\ h_args.taxa_mutacao = 0) => MesmosGenes
    /\ (/\ h_op = "mutacao_inteligente"
        /\ h_args.taxa_mutacao = 0
        /\ Span(Chegadas(h_args.cromossomo.voos_ida)) <= 1
        /\ Span(Saidas(h_args.cromossomo.voos_volta)) <= 1) => MesmosGenes

\* the gap-directed strategy ran at rate 0 on a chromosome of at least two
\* genes whose arrival span is exactly one hour
C8_Witness ==
    /\ h_op = "mutacao_inteligente"
    /\ h_args.taxa_mutacao = 0
    /\ NGenes >= 2
    /\ Span(Chegadas(h_args.cromossomo.voos_ida)) = 1
    /\ Span(Saidas(h_args.cromossomo.voos_volta)) <= 1
    /\ MesmosGenes

\* the sum of the prices of a list of flights, by position
RECURSIVE SomaPrecos(_, _)
SomaPrecos(voos, n) == IF n = 0 THEN 0 ELSE SomaPrecos(voos, n - 1) + voos[n].preco

\* C9: calcular_fitness returns, for gene lists that are both non-empty,
\* -(peso_custo * total cost + peso_gap_chegada * arrival gap +
\* peso_gap_saida * departure gap), the total cost being the sum of all
\* outbound and return prices and each gap the greatest minus the least
\* hour; when the outbound or the return list is empty it returns
\* -1,000,000,000.
C9_Fitness ==
    h_op = "calcular_fitness" =>
        LET c == h_args.cromossomo
            w == h_args.pesos
        IN  IF Len(c.voos_ida) = 0 \/ Len(c.voos_volta) = 0
            THEN h_res = -1000000000
            ELSE h_res = 0 - ( w.peso_custo * (SomaPrecos(c.voos_ida, Len(c.voos_ida))
                                               + SomaPrecos(c.voos_volta, Len(c.voos_volta)))
                             + w.peso_gap_chegada * Span(Chegadas(c.voos_ida))
                             + w.peso_gap_saida * Span(Saidas(c.voos_volta)) )

\* the fitness of a chromosome with several genes per leg, positive gaps on
\* both legs and three positive weights was computed
C9_Witness ==
    /\ h_op = "calcular_fitness"
    /\ Len(h_args.cromossomo.voos_ida) >= 2
    /\ Len(h_args.cromossomo.voos_volta) >= 3
    /\ Span(Chegadas(h_args.cromossomo.voos_ida)) > 0
    /\ Span(Saidas(h_args.cromossomo.voos_volta)) > 0
    /\ h_args.pesos.peso_custo > 0
    /\ h_args.pesos.peso_gap_chegada > 0
    /\ h_args.pesos.peso_gap_saida > 0
    /\ h_res < 0

----------------------------------------------------------------------------
(* Properties of the run *)

\* the recorded best fitness never decreases from one generation to the next
HistoricoNaoDecrescente ==
    \A g \in 1..(Len(historico_fitness) - 1) :
        historico_fitness[g + 1] >= historico_fitness[g]

\* C2 as stated: with elite_fraction > 0 and a population of at least one
\* the recorded best-of-generation fitness never decreases.
C2_Original ==
    (cfg.taxa_elite > 0 /\ cfg.tamanho_populacao >= 1) => HistoricoNaoDecrescente

\* C2 amended: when at least one elite is carried, that is when
\* int(elite_fraction * population size) >= 1, the recorded
\* best-of-generation fitness never decreases from one generation to the
\* next.
C2_Elitismo ==
    (elite_size(cfg) >= 1 /\ cfg.tamanho_populacao >= 1) => HistoricoNaoDecrescente

\* a run with an elite and random mutation recorded a strict improvement
C2_Witness ==
    /\ elite_size(cfg) >= 1
    /\ cfg.taxa_mutacao > 0
    /\ Len(historico_fitness) >= 2
    /\ historico_fitness[2] > historico_fitness[1]

\* the loop of executar left through one of its two break statements
ParouPorCriterio == motivo \in {"convergencia", "estagnacao"}

\* the recorded best fitness has been constant since the last improvement,
\* which a first run records geracoes_sem_melhoria generations ago
ConstanteDesdeMelhoria ==
    /\ geracoes_sem_melhoria < Len(historico_fitness)
    /\ \A k \in (Len(historico_fitness) - geracoes_sem_melhoria)..Len(historico_fitness) :
          historico_fitness[k] = historico_fitness[Len(historico_fitness)]

DiferemMenosQueTolerancia(a, b) == InvTolerancia * Abs(a - b) < Abs(b)

\* C4 as stated: if the best fitness of generation g and of generation g-20
\* differ by less than 0.1% relative to the latter, no generation after g is
\* evaluated into the history.  (Entry k of the history is generation k-1.)
C4_Original ==
    \A k \in 21..Len(historico_fitness) :
        DiferemMenosQueTolerancia(historico_fitness[k], historico_fitness[k - 20])
            => Len(historico_fitness) = k

\* C4 amended: if the best fitness of generation g and of generation g-19,
\* the entry historico_fitness[-20] that the code reads, differ by less than
\* 0.1% relative to the latter, the loop halts at generation g by the
\* convergence rule and no generation after g is evaluated into the history.
C4_Convergencia ==
    \A k \in Janela..Len(historico_fitness) :
        DiferemMenosQueTolerancia(historico_fitness[k], historico_fitness[k - 19])
            => /\ Len(historico_fitness) = k
               /\ pc \in {"verificar", "final", "fim"}
               /\ pc # "verificar" => motivo = "convergencia"

\* a run that improved after its first generation returned after the
\* convergence rule halted it
C4_Witness ==
    /\ pc = "fim"
    /\ motivo = "convergencia"
    /\ retorno.tipo = "solucao"
    /\ Len(historico_fitness) > Janela
    /\ historico_fitness[1] < historico_fitness[Len(historico_fitness)]

\* C5 as stated: the chromosome returned by executar has a fitness greater
\* than or equal to every entry of the returned fitness history and equal to
\* the driver's best-fitness-seen, however the loop ended and whatever the
\* elite fraction.
C5_MelhorRetornado ==
    retorno.tipo = "solucao" =>
        /\ \A k \in 1..Len(retorno.fitness) :
              retorno.melhor_solucao.fitness >= retorno.fitness[k]
        /\ retorno.melhor_solucao.fitness = melhor_fitness

\* the chromosomes the run holds at this point
CromossomosDaRun == Elems(populacao) \cup Elems(nova_populacao)

\* C10: with 2 persons that have one outbound option (cost 100) and one
\* return option (cost 100) each, with identical arrival and identical
\* departure hours, all chromosomes of every generation are identical, both
\* gap terms are 0 and every recorded fitness as well as the fitness of the
\* returned chromosome equals -(peso_custo * 400).
C10_CenarioUnico ==
    cfg.pessoas = PessoasUnicas =>
        /\ \A c \in CromossomosDaRun, d \in CromossomosDaRun :
              c.voos_ida = d.voos_ida /\ c.voos_volta = d.voos_volta
        /\ \A c \in CromossomosDaRun :
              /\ Len(c.voos_ida) = 2 /\ Len(c.voos_volta) = 2
              /\ Span(Chegadas(c.voos_ida)) = 0
              /\ Span(Saidas(c.voos_volta)) = 0
        /\ \A k \in 1..Len(historico_fitness) :
              historico_fitness[k] = 0 - cfg.pesos.peso_custo * 400
        /\ retorno.tipo = "solucao" =>
              /\ retorno.melhor_solucao.fitness = 0 - cfg.pesos.peso_custo * 400
              /\ \A k \in 1..Len(retorno.fitness) :
                    retorno.fitness[k] = 0 - cfg.pesos.peso_custo * 400

\* a run of the one-option scenario with three chromosomes, random mutation
\* and a cost weight of 2 returned after at least 20 generations
C10_Witness ==
    /\ cfg.pessoas = PessoasUnicas
    /\ cfg.tamanho_populacao = 3
    /\ cfg.taxa_mutacao > 0
    /\ cfg.pesos.peso_custo = 2
    /\ pc = "fim"
    /\ retorno.tipo = "solucao"
    /\ Len(retorno.fitness) >= Janela

----------------------------------------------------------------------------
(* Errors and degenerate inputs *)

\* some person of the configuration has an empty outbound or return menu
MenuVazio ==
    \E i \in 1..Len(cfg.pessoas) :
        Len(cfg.pessoas[i].voos_ida) = 0 \/ Len(cfg.pessoas[i].voos_volta) = 0

\* C11: a configuration error aborts the run before any search step: when
\* no person is supplied or some person has an empty outbound or return menu
\* when the population is seeded, executar returns no chromosome together
\* with empty fitness and cost histories and the population holds no
\* chromosome.
C11_ErroDeConfiguracao ==
    (pc # "inicio" /\ (Len(cfg.pessoas) = 0 \/ MenuVazio)) =>
        /\ pc = "fim"
        /\ retorno.tipo = "None"
        /\ retorno.fitness = <<>>
        /\ retorno.custo = <<>>
        /\ populacao = <<>>

\* C12: degenerate gene lengths never raise: for parents of gene length 0
\* each of the five crossovers returns two chromosomes with empty gene
\* lists, for gene length 1 single-point crossover (and two-point crossover,
\* which falls back to it) returns two chromosomes with empty gene lists,
\* and no crossover of parents of gene length 0, 1 or 2 raises.
C12_Degenerados ==
    (h_op \in TiposCruzamento /\ NGenes <= 2) =>
        /\ ~h_res.erro
        /\ (NGenes = 0 \/ (NGenes = 1 /\ h_op \in {"ponto_unico", "dois_pontos"})) =>
              \A f \in {h_res.filho1, h_res.filho2} :
                  f.voos_ida = <<>> /\ f.voos_volta = <<>>

\* C13: exhausted selection is not fatal: when the configured population is
\* empty (and the seeding does not fail) executar runs to completion
\* without raising.
C13_SelecaoEsgotada ==
    (cfg.tamanho_populacao = 0 /\ Len(cfg.pessoas) > 0) => retorno.tipo # "excecao"

\* C14: run state does not persist across runs: at the start of every call
\* of executar, a second call on the same instance included, the best
\* fitness seen is minus infinity and the counter of generations without
\* improvement is 0.
C14_SemPersistencia ==
    pc = "inicio" => /\ melhor_fitness = MenosInfinito
                     /\ geracoes_sem_melhoria = 0

----------------------------------------------------------------------------
(* Properties of the histories and of termination *)

\* the number of generations the loop of the current call has evaluated
GeracoesAvaliadas ==
    IF pc \in {"verificar", "evoluir", "preencher", "substituir"} THEN geracao + 1
    ELSE IF pc = "final" /\ ParouPorCriterio THEN geracao + 1
    ELSE geracao

\* the last entries of the two histories are the fitness and the total cost
\* of a chromosome of the population that no other chromosome beats
UltimaEntradaDoMelhor ==
    \E c \in Elems(populacao) :
        /\ \A d \in Elems(populacao) : d.fitness <= c.fitness
        /\ c.fitness = calcular_fitness(c, cfg.pesos)
        /\ historico_fitness[Len(historico_fitness)] = c.fitness
        /\ historico_custo[Len(historico_custo)] =
              SomaPrecos(c.voos_ida, Len(c.voos_ida)) + SomaPrecos(c.voos_volta, Len(c.voos_volta))

\* what holds of the histories in every state of a call
HistoricosPorGeracao ==
    /\ Len(historico_fitness) = Len(historico_custo)
    /\ Len(historico_fitness) <= cfg.max_geracoes
    /\ pc \in {"laco", "verificar", "evoluir", "preencher", "substituir", "final"} =>
          Len(historico_fitness) = GeracoesAvaliadas
    /\ pc = "verificar" => UltimaEntradaDoMelhor
    /\ retorno.tipo = "solucao" => /\ retorno.fitness = historico_fitness
                                   /\ retorno.custo = historico_custo

\* within a call a step leaves the recorded entries as they are and adds at
\* most one entry
EntradasEstaveis ==
    pc' # "inicio" =>
        /\ Len(historico_fitness') \in {Len(historico_fitness), Len(historico_fitness) + 1}
        /\ SubSeq(historico_fitness', 1, Len(historico_fitness)) = historico_fitness
        /\ SubSeq(historico_custo', 1, Len(historico_custo)) = historico_custo

\* C15: the run summary has one entry per generation actually executed: the
\* fitness and the cost history always have the same length, which is the
\* number of generations the loop evaluated and never exceeds
\* max_generations; entry g holds the fitness and the total cost of the best
\* chromosome of the population of generation g, and executar returns these
\* histories.
C15_Historicos == []HistoricosPorGeracao /\ [][EntradasEstaveis]_vars

\* a run returned after four generations, stopped by the stagnation rule
\* before max_generations, with a history that is not constant
C15_Witness ==
    /\ pc = "fim"
    /\ retorno.tipo = "solucao"
    /\ motivo = "estagnacao"
    /\ Len(retorno.fitness) >= 4
    /\ Len(retorno.fitness) < cfg.max_geracoes
    /\ retorno.fitness[1] # retorno.fitness[Len(retorno.fitness)]
    /\ retorno.custo[1] # retorno.custo[Len(retorno.custo)]

\* a configuration with at least two persons, no empty menu and a population
\* of at least one chromosome
ConfiguracaoRegular ==
    /\ Len(cfg.pessoas) >= 2
    /\ ~MenuVazio
    /\ cfg.tamanho_populacao >= 1

\* C16: every call of executar with at least two persons, non-empty menus
\* and a population size >= 1 terminates: it returns a solution after at
\* most max_generations evaluated generations, whether or not the
\* stagnation or the convergence rule fires.
C16_Termina ==
    (pc = "inicio" /\ ConfiguracaoRegular) ~>
        (/\ pc = "fim"
         /\ retorno.tipo = "solucao"
         /\ Len(retorno.fitness) <= cfg.max_geracoes)

\* a run returned because the generations ran out, neither stopping rule
\* having fired
C16_Witness ==
    /\ pc = "fim"
    /\ retorno.tipo = "solucao"
    /\ ConfiguracaoRegular
    /\ motivo = "max_geracoes"
    /\ Len(retorno.fitness) = cfg.max_geracoes

----------------------------------------------------------------------------
(* Properties of the population over a run                                 *)

\* one gene per person on each leg, the gene of position i being an option of
\* person i's own menu of that leg
GenesProprios(c) ==
    /\ Len(c.voos_ida) = Len(cfg.pessoas)
    /\ Len(c.voos_volta) = Len(cfg.pessoas)
    /\ \A i \in 1..Len(cfg.pessoas) :
          /\ c.voos_ida[i] \in Elems(cfg.pessoas[i].voos_ida)
          /\ c.voos_volta[i] \in Elems(cfg.pessoas[i].voos_volta)

\* C17: with at least two persons, in every state of a run every chromosome
\* of the population, and of the generation under construction, has exactly
\* one outbound and one return gene per person, and its gene at position i is
\* an option of person i's own outbound, respectively return, menu.
C17_GenesProprios ==
    Len(cfg.pessoas) >= 2 =>
        /\ \A k \in 1..Len(populacao) : GenesProprios(populacao[k])
        /\ \A k \in 1..Len(nova_populacao) : GenesProprios(nova_populacao[k])

\* the only chromosome of a population of one changed from generation 0 to
\* generation 1: crossing it with itself copies it, so mutation replaced a gene
C17_Witness ==
    /\ Len(cfg.pessoas) >= 2
    /\ cfg.tamanho_populacao = 1
    /\ Len(populacao) = 1
    /\ Len(historico_fitness) = 2
    /\ historico_fitness[1] # historico_fitness[2]

\* C18: after the initial population is built and after every evoluir_geracao
\* that returns, up to the return of the solution, the population holds
\* exactly tamanho_populacao chromosomes, also when the last pair of children
\* overshoots the size and the surplus child is cut off.
C18_TamanhoFixo ==
    (pc \in {"laco", "verificar", "evoluir", "preencher", "substituir", "final"}
       \/ (pc = "fim" /\ retorno.tipo = "solucao"))
      => Len(populacao) = cfg.tamanho_populacao

\* a generation built by evoluir_geracao with an odd number of free slots
\* after the elite: the last pair overshot by one child
C18_Witness ==
    /\ pc = "laco"
    /\ geracao >= 1
    /\ cfg.tamanho_populacao >= 2
    /\ (cfg.tamanho_populacao - elite_size(cfg)) % 2 = 1
    /\ Len(populacao) = cfg.tamanho_populacao

\* seq is a rearrangement of de
Rearranjo(seq, de) ==
    /\ Len(seq) = Len(de)
    /\ \E f \in [1..Len(de) -> 1..Len(de)] :
          /\ \A i, j \in 1..Len(de) : i # j => f[i] # f[j]
          /\ \A i \in 1..Len(de) : seq[i] = de[f[i]]

\* no chromosome of pop from position i on has a greater fitness than pop[i]
Decrescente(pop) ==
    \A i \in 1..Len(pop) : \A j \in i..Len(pop) : pop[i].fitness >= pop[j].fitness

\* the first n entries of a are the first n entries of b
MesmoInicio(a, b, n) ==
    /\ Len(a) >= n
    /\ Len(b) >= n
    /\ \A i \in 1..n : a[i] = b[i]

\* while evoluir_geracao fills the next generation, the current one is in
\* descending order of fitness and the next one begins with its elite
EliteNaFrente ==
    pc \in {"preencher", "substituir"} =>
        /\ Decrescente(populacao)
        /\ MesmoInicio(nova_populacao, populacao, elite_size(cfg))

\* evoluir_geracao sorts the generation it was given without changing any
\* chromosome, and the generation it leaves begins with that elite
ElitePassa ==
    /\ (pc = "evoluir" /\ pc' = "preencher") => Rearranjo(populacao', populacao)
    /\ (pc = "substituir" /\ pc' = "laco") =>
           MesmoInicio(populacao', populacao, elite_size(cfg))

\* C19: the generation evoluir_geracao produces begins with the
\* int(taxa_elite * tamanho_populacao) chromosomes of greatest fitness of the
\* current generation, in descending order of fitness, with their genes and
\* fitness unchanged, so each of them is a member of the next population.
C19_EliteNaProxima ==
    []EliteNaFrente /\ [][ElitePassa]_vars

\* a new generation whose first chromosome is the elite, still carrying the
\* fitness of its evaluation, followed by a child not yet evaluated
C19_Witness ==
    /\ pc = "laco"
    /\ geracao >= 1
    /\ elite_size(cfg) = 1
    /\ Len(populacao) >= 2
    /\ populacao[1].fitness < 0
    /\ populacao[2].fitness = 0
    /\ populacao[1].voos_ida # populacao[2].voos_ida

----------------------------------------------------------------------------
(* Frame of the operators on the lists they are given                      *)

\* the lists held by the chromosomes, or persons, of a sequence
ListasDe(cs) == UNION {{cs[k].voos_ida, cs[k].voos_volta} : k \in 1..Len(cs)}

\* C20: seeding, every crossover and every mutation leave the content of
\* every menu list of every person as it was at the start; a crossover leaves
\* the gene lists of both parents, and a mutation the gene lists of its input,
\* as they were before the call; and the chromosome a mutation returns is a
\* new one, on lists that are neither the input's nor a menu.
C20_SemEscritaCompartilhada ==
    h_op \in {"semeada", "cruzada", "mutada"} =>
        /\ \A m \in ListasDe(h_args.pessoas) : h_res.heap[m] = h_args.menus[m]
        /\ \A l \in ListasDe(h_res.entrada) : h_res.heap[l] = h_res.antes[l]
        /\ h_op = "mutada" =>
              ListasDe(h_res.saida) \cap (ListasDe(h_res.entrada) \cup ListasDe(h_args.pessoas))
                  = {}

\* a mutation returned a chromosome with a gene its input does not have
C20_Witness ==
    /\ h_op = "mutada"
    /\ h_res.heap[h_res.saida[1].voos_ida] # h_res.heap[h_res.entrada[1].voos_ida]

----------------------------------------------------------------------------
(* Properties of single operators                                          *)

\* |atual - referencia| / |referencia| < tolerancia, and for a reference
\* that is zero |atual - referencia| < tolerancia * |referencia| + 1e-9
DentroDaTolerancia(atual, referencia) ==
    IF referencia = 0 THEN atual = referencia
    ELSE InvTolerancia * Abs(atual - referencia) < Abs(referencia)

\* C21 as stated: false with fewer than 20 entries; with the entry of exactly
\* 20 generations before the latest one as reference, true iff the latest
\* entry is within the tolerance of that reference.
C21_Original ==
    h_op = "criterio_parada_avancado" =>
        LET h == h_args.historico_fitness
        IN  /\ Len(h) < Janela => h_res = FALSE
            /\ Len(h) > Janela =>
                  h_res = DentroDaTolerancia(h[Len(h)], h[Len(h) - Janela])

\* C21 amended: false with fewer than 20 entries; from 20 entries on the
\* reference is the entry historico_fitness[-20], recorded 19 generations
\* before the latest one, and the result is true iff the latest entry is
\* within the tolerance of that reference.
C21_Criterio ==
    h_op = "criterio_parada_avancado" =>
        LET h == h_args.historico_fitness
        IN  /\ Len(h) < Janela => h_res = FALSE
            /\ Len(h) >= Janela =>
                  h_res = DentroDaTolerancia(h[Len(h)], h[Len(h) - (Janela - 1)])

\* convergence reported on a history longer than the window whose latest
\* entry is within the tolerance of the entry 19 generations before but not
\* of the entry 20 generations before
C21_Witness ==
    /\ h_op = "criterio_parada_avancado"
    /\ h_res = TRUE
    /\ Len(h_args.historico_fitness) > Janela
    /\ ~DentroDaTolerancia(h_args.historico_fitness[Len(h_args.historico_fitness)],
                           h_args.historico_fitness[Len(h_args.historico_fitness) - Janela])

\* the positions where the result of a mutation differs from its input
MudouIda == {i \in 1..NGenes : h_res.voos_ida[i] # h_args.cromossomo.voos_ida[i]}

MudouVolta == {i \in 1..NGenes : h_res.voos_volta[i] # h_args.cromossomo.voos_volta[i]}

\* the latest arrival of the outbound genes and the earliest departure of the
\* return genes of the input
UltimaChegada ==
    CHOOSE x \in Elems(Chegadas(h_args.cromossomo.voos_ida)) :
        \A y \in Elems(Chegadas(h_args.cromossomo.voos_ida)) : x >= y

PrimeiraSaida ==
    CHOOSE x \in Elems(Saidas(h_args.cromossomo.voos_volta)) :
        \A y \in Elems(Saidas(h_args.cromossomo.voos_volta)) : x <= y

\* C22: at mutation rate 0 the gap-directed mutation keeps one gene per
\* person and leg and replaces an outbound gene only when the arrival span of
\* the input exceeds one hour, only at one position, the first that holds the
\* latest arrival, and only by an option of that person's outbound menu that
\* arrives strictly before the latest arrival; a return gene only when the
\* departure span exceeds one hour, only at the first position that holds
\* the earliest departure, and only by an option of that person's return
\* menu that departs strictly after the earliest departure.
C22_ReparoDirigido ==
    (h_op = "mutacao_inteligente" /\ h_args.taxa_mutacao = 0) =>
        /\ Len(h_res.voos_ida) = NGenes
        /\ Len(h_res.voos_volta) = NGenes
        /\ \A i \in MudouIda :
              /\ Span(Chegadas(h_args.cromossomo.voos_ida)) > 1
              /\ h_args.cromossomo.voos_ida[i].horario_chegada = UltimaChegada
              /\ \A j \in 1..(i - 1) :
                    h_args.cromossomo.voos_ida[j].horario_chegada # UltimaChegada
              /\ h_res.voos_ida[i] \in Elems(h_args.pessoas[i].voos_ida)
              /\ h_res.voos_ida[i].horario_chegada < UltimaChegada
        /\ \A i \in MudouVolta :
              /\ Span(Saidas(h_args.cromossomo.voos_volta)) > 1
              /\ h_args.cromossomo.voos_volta[i].horario_saida = PrimeiraSaida
              /\ \A j \in 1..(i - 1) :
                    h_args.cromossomo.voos_volta[j].horario_saida # PrimeiraSaida
              /\ h_res.voos_volta[i] \in Elems(h_args.pessoas[i].voos_volta)
              /\ h_res.voos_volta[i].horario_saida > PrimeiraSaida

\* at rate 0 both repairs replaced a gene of a chromosome in which two
\* persons share the latest arrival
C22_Witness ==
    /\ h_op = "mutacao_inteligente"
    /\ h_args.taxa_mutacao = 0
    /\ MudouIda # {}
    /\ MudouVolta # {}
    /\ \E i \in 1..NGenes, j \in 1..NGenes :
          /\ i # j
          /\ h_args.cromossomo.voos_ida[i].horario_chegada = UltimaChegada
          /\ h_args.cromossomo.voos_ida[j].horario_chegada = UltimaChegada

\* C23: schedule-aligned crossover: child 1's outbound list is the whole
\* outbound list of the parent of smaller arrival span (greatest minus least
\* arrival), parent 1's on a tie, and child 2's the whole outbound list of the
\* other parent, so child 1's arrival span is never larger than child 2's; at
\* every position the return genes of child 1 and child 2 are the return
\* genes of the two parents at that position, in one order or the other.
C23_HorarioAlinhado ==
    h_op = "horario" =>
        LET span_pai1 == Span(Chegadas(h_args.pai1.voos_ida))
            span_pai2 == Span(Chegadas(h_args.pai2.voos_ida))
        IN  /\ ~h_res.erro
            /\ h_res.filho1.voos_ida =
                  (IF span_pai1 <= span_pai2 THEN h_args.pai1.voos_ida ELSE h_args.pai2.voos_ida)
            /\ h_res.filho2.voos_ida =
                  (IF span_pai1 <= span_pai2 THEN h_args.pai2.voos_ida ELSE h_args.pai1.voos_ida)
            /\ Span(Chegadas(h_res.filho1.voos_ida)) <= Span(Chegadas(h_res.filho2.voos_ida))
            /\ Len(h_res.filho1.voos_volta) = NGenes
            /\ Len(h_res.filho2.voos_volta) = NGenes
            /\ \A i \in 1..NGenes :
                  \/ /\ h_res.filho1.voos_volta[i] = h_args.pai1.voos_volta[i]
                     /\ h_res.filho2.voos_volta[i] = h_args.pai2.voos_volta[i]
                  \/ /\ h_res.filho1.voos_volta[i] = h_args.pai2.voos_volta[i]
                     /\ h_res.filho2.voos_volta[i] = h_args.pai1.voos_volta[i]

\* parents of equal arrival span and different outbound lists; child 1 has
\* parent 1's outbound list and, on the return leg, a gene of parent 2 at one
\* position and a gene of parent 1 at another
C23_Witness ==
    /\ h_op = "horario"
    /\ h_args.pai1.voos_ida # h_args.pai2.voos_ida
    /\ Span(Chegadas(h_args.pai1.voos_ida)) = Span(Chegadas(h_args.pai2.voos_ida))
    /\ h_res.filho1.voos_ida = h_args.pai1.voos_ida
    /\ \E i \in 1..NGenes, j \in 1..NGenes :
          /\ h_args.pai1.voos_volta[i] # h_args.pai2.voos_volta[i]
          /\ h_args.pai1.voos_volta[j] # h_args.pai2.voos_volta[j]
          /\ h_res.filho1.voos_volta[i] = h_args.pai2.voos_volta[i]
          /\ h_res.filho1.voos_volta[j] = h_args.pai1.voos_volta[j]

\* C24: selecao_torneio returns None on an empty population and the only
\* chromosome of a population of one; on a population of at least two it
\* draws min(3, size) distinct members, and returns the first of the sample
\* sorted by descending fitness, a member of greatest fitness in the sample,
\* or, when random.random() < taxa_nao_melhor, another member of the sample,
\* never that first one; the population is left as it was.  The positions
\* the run can select are exactly the positions such calls return.
C24_Torneio ==
    h_op = "selecao_torneio" =>
        LET pop == h_args.populacao
            amostra == Elems(h_res.competidores)
        IN  /\ Len(pop) = 0 => h_res.escolhido = 0
            /\ Len(pop) = 1 => h_res.escolhido = 1
            /\ Len(pop) >= 2 =>
                  /\ amostra \subseteq 1..Len(pop)
                  /\ Len(h_res.competidores) = MinOf(TamanhoTorneio, Len(pop))
                  /\ Cardinality(amostra) = Len(h_res.competidores)
                  /\ \A i \in amostra :
                        pop[h_res.competidores[1]].fitness >= pop[i].fitness
                  /\ h_res.escolhido \in amostra
                  /\ ~h_res.nao_melhor => h_res.escolhido = h_res.competidores[1]
                  /\ h_res.nao_melhor => h_res.escolhido # h_res.competidores[1]
            /\ h_res.populacao = pop
            /\ selecao_torneio(pop) = {t.escolhido : t \in Torneios(pop)}

\* a tournament of three out of four chromosomes took the non-best branch
\* and returned a member of lower fitness than the best of the sample
C24_Witness ==
    /\ h_op = "selecao_torneio"
    /\ Len(h_args.populacao) = 4
    /\ Len(h_res.competidores) = 3
    /\ h_res.nao_melhor
    /\ h_args.populacao[h_res.escolhido].fitness
         < h_args.populacao[h_res.competidores[1]].fitness

----------------------------------------------------------------------------
(* Interaction of the two stopping rules                                   *)

\* C25: in the first executar call of an instance that carries at least one
\* elite chromosome per generation (int(taxa_elite * tamanho_populacao) >= 1)
\* the counter geracoes_sem_melhoria never exceeds 19, the window of the
\* convergence test less one, and the loop is halted by the stagnation rule
\* only for a stagnation limit below 20.
C25_ContadorLimitado ==
    (execucao = 1 /\ elite_size(cfg) >= 1) =>
        /\ geracoes_sem_melhoria <= Janela - 1
        /\ motivo = "estagnacao" => cfg.geracoes_sem_melhoria_max < Janela

\* a first run with an elite and a stagnation limit of 40 was halted by the
\* convergence rule in the generation in which the counter reached 19
C25_Witness ==
    /\ execucao = 1
    /\ elite_size(cfg) >= 1
    /\ cfg.geracoes_sem_melhoria_max >= Janela
    /\ geracoes_sem_melhoria = Janela - 1
    /\ motivo = "convergencia"
    /\ pc = "fim"
    /\ retorno.tipo = "solucao"

====
